---- MODULE Spec2Model ----
(***************************************************************************)
(* Model of the useReducer search-box example (reducer, App's useEffect)   *)
(* and of the useLoading custom hook of the React-TypeScript notes.        *)
(*                                                                         *)
(* Three specifications share the module:                                  *)
(*   Spec        the App component: query changes, fetches settling,       *)
(*               unmount;                                                  *)
(*   SpecReducer the reducer as a pure function applied to drawn inputs;   *)
(*   SpecLoading the useLoading hook under overlapping load calls.         *)
(*                                                                         *)
(* A change of the query, the re-render, the cleanup of the previous       *)
(* effect and the run of the new effect are one step: the source gives the *)
(* effect the dependency list [query] and nothing else about scheduling.   *)
(***************************************************************************)
EXTENDS Integers, Sequences, FiniteSets, TLC

VARIABLES
  query,      \* App: useState<string>() value
  state,      \* App: useReducer state
  effects,    \* App: one record per run of the effect (its closure and its fetch)
  mounted,    \* App: "init" (rendered, effect not yet run), "mounted", "unmounted"
  log,        \* App: every call of dispatch, in order, with the effect that made it
  rState,     \* reducer call: the state argument
  rAction,    \* reducer call: the action argument
  rResult,    \* reducer call: the completion of reducer(rState, rAction)
  isLoading,  \* useLoading: the boolean state
  promises,   \* useLoading: status of each promise
  calls       \* useLoading: one record per load call (its finally callback)

vars == <<query, state, effects, mounted, log, rState, rAction, rResult,
          isLoading, promises, calls>>

appVars == <<query, state, effects, mounted, log>>
reducerVars == <<rState, rAction, rResult>>
loadingVars == <<isLoading, promises, calls>>

\* ---------------------------------------------------------------- bounds
MaxFetches == 3     \* runs of the effect (fetches started) in one behaviour
MaxCalls == 3       \* calls of load in one behaviour
NumPromises == 3    \* distinct promises handed to load

\* ---------------------------------------------------------------- data
undefined == [jsType |-> "undefined"]

Queries == {"a", "b"}

Hit1 == [title |-> "A", objectID |-> "1", url |-> "http://a"]
Hit2 == [title |-> "B", objectID |-> "2", url |-> "http://b"]

\* HNResponse values
HNResponses == {[hits |-> <<>>], [hits |-> <<Hit1>>], [hits |-> <<Hit1, Hit2>>]}

\* what axios resolves with: the payload sits under .data
AxiosResponses == {[data |-> r, status |-> 200] : r \in HNResponses}

\* what axios rejects with
Errors == {[message |-> "network error"], [message |-> "timeout"],
           [message |-> "decode failure"]}

\* type State
States ==
  {[status |-> "empty"], [status |-> "loading"]}
    \cup {[status |-> "error", error |-> e] : e \in Errors}
    \cup {[status |-> "success", data |-> r] : r \in HNResponses}

\* type Action
Actions ==
  {[type |-> "request"]}
    \cup {[type |-> "success", results |-> r] : r \in HNResponses}
    \cup {[type |-> "failure", error |-> e] : e \in Errors}

\* action values outside the declared union (a caller bypassing the types)
UnknownActions == {[type |-> "reset"], [type |-> "cancel"]}

\* ---------------------------------------------------------------- reducer
\* A JavaScript completion record: the function returned a value
\* (a completion "throw" would stand for an exception; the reducer has no throw).
Return(v) == [completion |-> "return", value |-> v]

reducer_keepsStateOnRequest(s, action) ==
  CASE action.type = "request" -> Return(s)
    [] action.type = "success" -> Return([status |-> "success", data |-> action.results])
    [] action.type = "failure" -> Return([status |-> "error", error |-> action.error])
    [] OTHER -> Return(undefined)

reducer_mergesData(s, action) ==
  CASE action.type = "request" -> Return([status |-> "loading"])
    [] action.type = "success" ->
         Return([status |-> "success",
                 data |-> IF s.status = "success" THEN s.data ELSE action.results])
    [] action.type = "failure" -> Return([status |-> "error", error |-> action.error])
    [] OTHER -> Return(undefined)

reducer_keepsFirstError(s, action) ==
  CASE action.type = "request" -> Return([status |-> "loading"])
    [] action.type = "success" -> Return([status |-> "success", data |-> action.results])
    [] action.type = "failure" ->
         Return([status |-> "error",
                 error |-> IF s.status = "error" THEN s.error ELSE action.error])
    [] OTHER -> Return(undefined)

\* function reducer(state, action): the switch has no default, so an action
\* whose type matches no case falls out of the switch and the function
\* returns undefined.
reducer(s, action) ==
  CASE action.type = "request" -> Return([status |-> "loading"])
    [] action.type = "success" -> Return([status |-> "success", data |-> action.results])
    [] action.type = "failure" -> Return([status |-> "error", error |-> action.error])
    [] OTHER -> Return(undefined)

\* ---------------------------------------------------------------- App
NoValue == [none |-> TRUE]

\* the closure of one run of the effect and the fetch it started
NewEffect(q) == [query |-> q, ignore |-> FALSE, settled |-> "pending", value |-> NoValue]

effectDispatches_none == <<>>

\* effect body: dispatch({ type: 'request' })
effectDispatches == <<[type |-> "request"]>>

onFulfilled_unguarded(ignore, results) ==
  <<[type |-> "success", results |-> results.data]>>

\* results => { if (!ignore) dispatch({ type: 'success', results: results.data }) }
onFulfilled(ignore, results) ==
  IF ~ignore THEN <<[type |-> "success", results |-> results.data]>> ELSE <<>>

\* error => dispatch({ type: 'failure', error })
onRejected(ignore, error) == <<[type |-> "failure", error |-> error]>>

\* return () => { ignore = true }
cleanup(fx) == [fx EXCEPT !.ignore = TRUE]

\* the state after the reducer has consumed the actions, in order
RECURSIVE reduceAll(_, _)
reduceAll(s, as) ==
  IF as = <<>> THEN s ELSE reduceAll(reducer(s, Head(as)).value, Tail(as))

Stamp(gen, as) == [k \in 1..Len(as) |-> [gen |-> gen, action |-> as[k]]]

\* dispatch called by effect run gen with each of the actions as; a dispatch
\* on a component that is no longer mounted changes no state.
Dispatch(gen, as, isMounted) ==
  /\ log' = log \o Stamp(gen, as)
  /\ state' = IF isMounted THEN reduceAll(state, as) ELSE state

\* cleanup of the previous run of the effect, when there is one
CleanupLast(fxs) ==
  IF fxs = <<>> THEN fxs ELSE [fxs EXCEPT ![Len(fxs)] = cleanup(fxs[Len(fxs)])]

\* one run of the effect for query q
RunEffect(q) ==
  /\ effects' = Append(CleanupLast(effects), NewEffect(q))
  /\ Dispatch(Len(effects) + 1, effectDispatches, TRUE)

InitApp ==
  /\ query = "undefined"
  /\ state = [status |-> "empty"]
  /\ effects = <<>>
  /\ mounted = "init"
  /\ log = <<>>

InitReducerIdle ==
  /\ rState = [status |-> "empty"]
  /\ rAction = [type |-> "request"]
  /\ rResult = NoValue

InitLoadingIdle ==
  /\ isLoading = FALSE
  /\ promises = [p \in 1..NumPromises |-> "pending"]
  /\ calls = <<>>

\* first commit: the effect runs with the initial (undefined) query
Mount ==
  /\ mounted = "init"
  /\ mounted' = "mounted"
  /\ RunEffect(query)
  /\ UNCHANGED <<query, reducerVars, loadingVars>>

\* onChange -> setQuery(q); [query] changed, so cleanup and effect run again
SetQuery(q) ==
  /\ mounted = "mounted"
  /\ q # query
  /\ Len(effects) < MaxFetches
  /\ query' = q
  /\ RunEffect(q)
  /\ UNCHANGED <<mounted, reducerVars, loadingVars>>

\* the fetch of effect run i resolves with response r
Fulfil(i, r) ==
  /\ effects[i].settled = "pending"
  /\ effects' = [effects EXCEPT ![i].settled = "fulfilled", ![i].value = r]
  /\ Dispatch(i, onFulfilled(effects[i].ignore, r), mounted = "mounted")
  /\ UNCHANGED <<query, mounted, reducerVars, loadingVars>>

\* the fetch of effect run i rejects with error e
Reject(i, e) ==
  /\ effects[i].settled = "pending"
  /\ effects' = [effects EXCEPT ![i].settled = "rejected", ![i].value = e]
  /\ Dispatch(i, onRejected(effects[i].ignore, e), mounted = "mounted")
  /\ UNCHANGED <<query, mounted, reducerVars, loadingVars>>

\* the component unmounts: the last effect's cleanup runs
Unmount ==
  /\ mounted = "mounted"
  /\ mounted' = "unmounted"
  /\ effects' = CleanupLast(effects)
  /\ UNCHANGED <<query, state, log, reducerVars, loadingVars>>

Next ==
  \/ Mount
  \/ \E q \in Queries : SetQuery(q)
  \/ \E i \in 1..Len(effects) : \E r \in AxiosResponses : Fulfil(i, r)
  \/ \E i \in 1..Len(effects) : \E e \in Errors : Reject(i, e)
  \/ Unmount

Init == InitApp /\ InitReducerIdle /\ InitLoadingIdle

Spec == Init /\ [][Next]_vars

\* ---------------------------------------------------------------- reducer as a pure function
InitReducer ==
  /\ rState \in States
  /\ rAction \in Actions \cup UnknownActions
  /\ rResult = NoValue
  /\ InitApp
  /\ InitLoadingIdle

\* one call reducer(rState, rAction)
Apply ==
  /\ rResult = NoValue
  /\ rResult' = reducer(rState, rAction)
  /\ UNCHANGED <<rState, rAction, appVars, loadingVars>>

NextReducer == Apply

SpecReducer == InitReducer /\ [][NextReducer]_vars

\* ---------------------------------------------------------------- useLoading
InitLoading ==
  /\ InitLoadingIdle
  /\ InitApp
  /\ InitReducerIdle

\* load(aPromise): setState(true); aPromise.finally(() => setState(false))
Load(p) ==
  /\ Len(calls) < MaxCalls
  /\ isLoading' = TRUE
  /\ calls' = Append(calls, [promise |-> p, ran |-> FALSE])
  /\ UNCHANGED <<promises, appVars, reducerVars>>

\* promise p settles (the hook does not control when)
Settle(p, how) ==
  /\ promises[p] = "pending"
  /\ promises' = [promises EXCEPT ![p] = how]
  /\ UNCHANGED <<isLoading, calls, appVars, reducerVars>>

\* the finally callback registered by load call k runs: setState(false)
RunFinally(k) ==
  /\ ~calls[k].ran
  /\ promises[calls[k].promise] # "pending"
  /\ isLoading' = FALSE
  /\ calls' = [calls EXCEPT ![k].ran = TRUE]
  /\ UNCHANGED <<promises, appVars, reducerVars>>

NextLoading ==
  \/ \E p \in 1..NumPromises : Load(p)
  \/ \E p \in 1..NumPromises : \E how \in {"fulfilled", "rejected"} : Settle(p, how)
  \/ \E k \in 1..Len(calls) : RunFinally(k)

SpecLoading == InitLoading /\ [][NextLoading]_vars

\* ---------------------------------------------------------------- properties of App
\* the state the outcome of a settled fetch stands for
Outcome(fx) ==
  IF fx.settled = "fulfilled"
    THEN [status |-> "success", data |-> fx.value.data]
    ELSE [status |-> "error", error |-> fx.value]

\* effect run i has been superseded by a later query
Superseded(i) == i < Len(effects)

Settles(i, how) == effects[i].settled = "pending" /\ effects'[i].settled = how

\* C1: when the fetch of a superseded query rejects, no action is dispatched
\* for it and the request state is left as it was.
C1_StaleFailureSuppressed ==
  [][\A i \in 1..Len(effects) :
       (Superseded(i) /\ Settles(i, "rejected")) => (log' = log /\ state' = state)]_vars

\* C2: when the fetch of a superseded query resolves, no action is dispatched
\* for it and the request state is left as it was, however many fetches are
\* superseded and in whatever order they settle.
C2_StaleSuccessSuppressed ==
  [][\A i \in 1..Len(effects) :
       (Superseded(i) /\ Settles(i, "fulfilled")) => (log' = log /\ state' = state)]_vars

\* C2 witness: two superseded fetches have resolved, the later one first,
\* while the component is mounted, and no success was dispatched for either.
C2_Witness ==
  /\ mounted = "mounted"
  /\ Len(effects) >= 3
  /\ effects[1].settled = "fulfilled"
  /\ effects[2].settled = "fulfilled"
  /\ effects[Len(effects)].settled = "pending"
  /\ \A k \in 1..Len(log) : log[k].action.type # "success"

\* C3: while the fetch of the most recent query change is pending, the request
\* state is Loading.
C3_LoadingWhileLatestPending ==
  (mounted = "mounted" /\ effects # <<>> /\ effects[Len(effects)].settled = "pending")
    => state.status = "loading"

\* C8: once every started fetch has settled (so nothing further can happen
\* unless the query changes), the request state is the outcome of the most
\* recently started fetch.
C8_SettlesAtLatestOutcome ==
  (/\ mounted = "mounted"
   /\ effects # <<>>
   /\ \A i \in 1..Len(effects) : effects[i].settled # "pending")
    => state = Outcome(effects[Len(effects)])

\* C9: from the Error state a query change starts a fresh fetch and moves the
\* state to Loading, and when that (latest) fetch settles its own outcome
\* becomes the state.
C9_FailureNotFatal ==
  [][/\ (mounted = "mounted" /\ state.status = "error" /\ query' # query)
          => /\ state'.status = "loading"
             /\ Len(effects') = Len(effects) + 1
             /\ effects'[Len(effects')] = NewEffect(query')
             /\ log' = Append(log, [gen |-> Len(effects'), action |-> [type |-> "request"]])
     /\ \A how \in {"fulfilled", "rejected"} :
          (/\ mounted = "mounted"
           /\ effects # <<>>
           /\ Settles(Len(effects), how)
           /\ \E k \in 1..Len(log) : log[k].action.type = "failure")
            => state' = Outcome(effects'[Len(effects)])]_vars

\* C9 witness: a failure was dispatched, the next query change dispatched
\* request, and the fetch it started has delivered its own outcome.
C9_Witness ==
  /\ mounted = "mounted"
  /\ \E k \in 1..Len(log) :
       /\ k + 2 <= Len(log)
       /\ log[k].action.type = "failure"
       /\ log[k + 1].action.type = "request"
       /\ log[k + 2].gen = log[k + 1].gen
       /\ log[k + 2].gen = Len(effects)
       /\ log[k + 2].action.type = "success"
  /\ state = Outcome(effects[Len(effects)])

\* ---------------------------------------------------------------- properties of reducer
Applied == rResult # NoValue

\* C4: reduce(s, Requested) is Loading for every s.
C4_RequestGivesLoading ==
  (Applied /\ rAction.type = "request") => rResult = Return([status |-> "loading"])

C4_Witness ==
  Applied /\ rAction.type = "request" /\ rState.status = "success"
    /\ rResult.value.status = "loading"

\* C5: reduce(s, Succeeded{r}) is Success carrying exactly r, for every s.
C5_SuccessCarriesResults ==
  (Applied /\ rAction.type = "success")
    => rResult = Return([status |-> "success", data |-> rAction.results])

C5_Witness ==
  /\ Applied
  /\ rAction.type = "success"
  /\ rState.status = "success"
  /\ rState.data # rAction.results
  /\ rResult.value.data = rAction.results

\* C6: reduce(s, Failed{m}) is Error carrying exactly m, for every s.
C6_FailureCarriesMessage ==
  (Applied /\ rAction.type = "failure")
    => rResult = Return([status |-> "error", error |-> rAction.error])

C6_Witness ==
  /\ Applied
  /\ rAction.type = "failure"
  /\ rState.status = "error"
  /\ rState.error # rAction.error
  /\ rResult.value.error = rAction.error

\* C7: given an action whose tag is none of request/success/failure, the
\* reducer fails fast (throws) and returns nothing.
C7_UnknownActionThrows ==
  (Applied /\ rAction \in UnknownActions) => rResult.completion = "throw"

\* ---------------------------------------------------------------- properties of useLoading
\* C10: isLoading is true whenever a promise passed to load is still pending.
C10_LoadingWhileAnyPending ==
  (\E k \in 1..Len(calls) : promises[calls[k].promise] = "pending") => isLoading

====
